---------------------------- MODULE Spec2Model ----------------------------
(***************************************************************************)
(* Route sequencing engine of the delivery-management backend              *)
(* (backend/src/utils/routeOptimizer.ts): Haversine distance, distance     *)
(* matrix, nearest-neighbour sequencing loop and duration estimate.        *)
(*                                                                         *)
(* Numbers.  The source computes in IEEE-754 doubles.  TLC has 32-bit      *)
(* integers only, so every quantity is a fixed-point integer and every     *)
(* operation rounds to the nearest representable value, as a double        *)
(* operation does:                                                         *)
(*   degrees            whole degrees                                      *)
(*   radians            micro-radians        (PI = 3141593)                *)
(*   sin, cos, sqrt     units of 1/Scale     (Scale = 10000)               *)
(*   a (haversine)      units of 1/Scale^2                                 *)
(*   distances          metres (1/1000 km)                                 *)
(*   durations          whole minutes; intermediate times in 1/1000 min    *)
(* NaN and Infinity are the two non-finite doubles the code can meet; they *)
(* are modelled by sentinels and by comparison operators with the IEEE     *)
(* rules (every comparison with NaN is false).                             *)
(***************************************************************************)
EXTENDS Integers, Sequences, FiniteSets

\* ------------------------------------------------------------------ bounds

\* Largest number of stops in an input list.
MaxStops == 4

\* Number of passes through the while loop that are followed (the loop itself
\* has no such limit: see Iterate); a loop that ends does so in fewer.
MaxIterations == MaxStops + 2

\* The duration estimate is evaluated at the distances 0, EstimateStep, ...,
\* EstimateStep * MaxEstimateSteps metres.
EstimateStep == 20

MaxEstimateSteps == 60

\* Coordinates (latitude, longitude) in whole degrees the stops are drawn
\* from: the four corners of a one-degree square at the origin, and a pair of
\* antipodal points.
Points ==
  { <<0, 0>>, <<0, 1>>, <<1, 0>>, <<1, 1>>, <<8, 0>>, <<-8, 180>> }

\* ----------------------------------------------------- double arithmetic

NaN == -1

Infinity == 2147483647

Scale == 10000

PI == 3141593

IsNaN(x) == x = NaN

\* x < y on doubles: false when either side is NaN.
Less(x, y) ==
  IF IsNaN(x) \/ IsNaN(y) THEN FALSE ELSE x < y

Abs(x) == IF x < 0 THEN -x ELSE x

Sign(x) == IF x < 0 THEN -1 ELSE 1

\* n / d rounded to the nearest integer, ties away from zero: the rounding is
\* symmetric in the sign, as IEEE round-to-nearest is.
RoundDiv(n, d) ==
  Sign(n) * Sign(d) * ((Abs(n) + Abs(d) \div 2) \div Abs(d))

\* (x * m) / d rounded, for x, m >= 0, without the product leaving 32 bits.
MulDiv(x, m, d) ==
  (x \div d) * m + RoundDiv((x % d) * m, d)

\* Math.round on the rational n / d, d > 0 and even: floor(n / d + 1/2).
MathRound(n, d) == (n + d \div 2) \div d

\* Math.sin at the multiples of half a degree from 0 to 90 degrees, in units
\* of 1/Scale (entry k + 1 is sin(k / 2 degrees)).
SinTable ==
  << 0, 87, 175, 262, 349, 436, 523, 610, 698, 785, 872, 958,
     1045, 1132, 1219, 1305, 1392, 1478, 1564, 1650, 1736, 1822, 1908, 1994,
     2079, 2164, 2250, 2334, 2419, 2504, 2588, 2672, 2756, 2840, 2924, 3007,
     3090, 3173, 3256, 3338, 3420, 3502, 3584, 3665, 3746, 3827, 3907, 3987,
     4067, 4147, 4226, 4305, 4384, 4462, 4540, 4617, 4695, 4772, 4848, 4924,
     5000, 5075, 5150, 5225, 5299, 5373, 5446, 5519, 5592, 5664, 5736, 5807,
     5878, 5948, 6018, 6088, 6157, 6225, 6293, 6361, 6428, 6494, 6561, 6626,
     6691, 6756, 6820, 6884, 6947, 7009, 7071, 7133, 7193, 7254, 7314, 7373,
     7431, 7490, 7547, 7604, 7660, 7716, 7771, 7826, 7880, 7934, 7986, 8039,
     8090, 8141, 8192, 8241, 8290, 8339, 8387, 8434, 8480, 8526, 8572, 8616,
     8660, 8704, 8746, 8788, 8829, 8870, 8910, 8949, 8988, 9026, 9063, 9100,
     9135, 9171, 9205, 9239, 9272, 9304, 9336, 9367, 9397, 9426, 9455, 9483,
     9511, 9537, 9563, 9588, 9613, 9636, 9659, 9681, 9703, 9724, 9744, 9763,
     9781, 9799, 9816, 9833, 9848, 9863, 9877, 9890, 9903, 9914, 9925, 9936,
     9945, 9954, 9962, 9969, 9976, 9981, 9986, 9990, 9994, 9997, 9998, 10000,
     10000 >>

\* The angle x (micro-radians, |x| <= PI) in half degrees, to the nearest.
HalfDegrees(x) == RoundDiv(x * 360, PI)

\* Math.sin(x): odd, and symmetric about 90 degrees.
MathSin(x) ==
  LET h == Abs(HalfDegrees(x))
      k == IF h > 180 THEN 360 - h ELSE h
  IN  Sign(x) * SinTable[k + 1]

\* Math.cos(x): even; cos(t) = sin(90 - t) up to 90 degrees, negative beyond.
MathCos(x) ==
  LET h == Abs(HalfDegrees(x))
  IN  IF h <= 180 THEN SinTable[180 - h + 1] ELSE -SinTable[h - 180 + 1]

\* The largest r in lo..hi with r * r <= x.
RECURSIVE FloorSqrt(_, _, _)
FloorSqrt(x, lo, hi) ==
  IF lo = hi THEN lo
  ELSE LET mid == (lo + hi + 1) \div 2
       IN  IF mid * mid <= x THEN FloorSqrt(x, mid, hi)
           ELSE FloorSqrt(x, lo, mid - 1)

\* Math.sqrt of x (units of 1/Scale^2), in units of 1/Scale, to the nearest;
\* NaN for a negative or NaN argument.
MathSqrt(x) ==
  IF IsNaN(x) \/ x < 0 THEN NaN
  ELSE LET r == FloorSqrt(x, 0, 2 * Scale)
       IN  IF x - r * r > r THEN r + 1 ELSE r

\* atan(u) for |u| <= tan(pi/8), u in units of 1/100000, by its power series;
\* the result in micro-radians.
AtanSeries(u) ==
  LET T  == 100000
      u2 == RoundDiv(u * u, T)
      u3 == RoundDiv(u2 * u, T)
      u5 == RoundDiv(u3 * u2, T)
      u7 == RoundDiv(u5 * u2, T)
      u9 == RoundDiv(u7 * u2, T)
  IN  RoundDiv(10 * (315 * u - 105 * u3 + 63 * u5 - 45 * u7 + 35 * u9), 315)

\* atan(t) for 0 <= t <= 1, t in units of 1/100000, in micro-radians:
\* atan(t) = pi/4 + atan((t - 1) / (t + 1)) above tan(pi/8).
Atan(t) ==
  LET T == 100000
  IN  IF t <= 41421 THEN AtanSeries(t)
      ELSE RoundDiv(PI, 4) + AtanSeries(-10 * RoundDiv((T - t) * 10000, t + T))

\* Math.atan2(y, x) for y, x >= 0 (both are square roots here), in
\* micro-radians; NaN when either argument is NaN.
MathAtan2(y, x) ==
  IF IsNaN(y) \/ IsNaN(x) THEN NaN
  ELSE IF y = 0 THEN 0
  ELSE IF y <= x THEN Atan(RoundDiv(y * 100000, x))
  ELSE RoundDiv(PI, 2) - Atan(RoundDiv(x * 100000, y))

\* ------------------------------------------------------------- distances

\* Earth's radius in kilometres.
R == 6371

toRadians(degrees) == RoundDiv(degrees * PI, 180)

\* A faulty variant of HaversineA: the cosine of lat1 taken twice,
\* cos(lat1) * cos(lat1), so that the two points are not treated alike.
HaversineACosLat1(lat1, lon1, lat2, lon2) ==
  LET dLat   == toRadians(lat2 - lat1)
      dLon   == toRadians(lon2 - lon1)
      sinLat == MathSin(RoundDiv(dLat, 2))
      sinLon == MathSin(RoundDiv(dLon, 2))
      cc     == RoundDiv(MathCos(toRadians(lat1)) * MathCos(toRadians(lat1)), Scale)
      ccs    == RoundDiv(cc * sinLon, Scale)
  IN  sinLat * sinLat + ccs * sinLon

\* The haversine term a of calculateDistance, in units of 1/Scale^2.  The
\* products are taken left to right, each rounded, as the doubles are.
HaversineA(lat1, lon1, lat2, lon2) ==
  LET dLat   == toRadians(lat2 - lat1)
      dLon   == toRadians(lon2 - lon1)
      sinLat == MathSin(RoundDiv(dLat, 2))
      sinLon == MathSin(RoundDiv(dLon, 2))
      cc     == RoundDiv(MathCos(toRadians(lat1)) * MathCos(toRadians(lat2)), Scale)
      ccs    == RoundDiv(cc * sinLon, Scale)
  IN  sinLat * sinLat + ccs * sinLon

\* calculateDistance: the great-circle distance in metres, NaN when the
\* rounding of a leaves 1 - a negative.
calculateDistance(lat1, lon1, lat2, lon2) ==
  LET a == HaversineA(lat1, lon1, lat2, lon2)
      c == MathAtan2(MathSqrt(a), MathSqrt(Scale * Scale - a))
  IN  IF IsNaN(c) THEN NaN ELSE MulDiv(2 * c, R, 1000)

\* --------------------------------------------------------- distance matrix

\* The identifier and the coordinates of a Location; orderNumber and address
\* are only logged.
Location(id, latitude, longitude) ==
  [id |-> id, latitude |-> latitude, longitude |-> longitude]

\* A faulty variant of MatrixEntry: the distance taken from the first
\* location of the list, not from location i.
MatrixEntryFromFirst(locs, i, j) ==
  IF i = j THEN 0
  ELSE calculateDistance(locs[1].latitude, locs[1].longitude,
                         locs[j + 1].latitude, locs[j + 1].longitude)

\* Entry (i, j) of calculateDistanceMatrix, i and j counted from 0.
MatrixEntry(locs, i, j) ==
  IF i = j THEN 0
  ELSE calculateDistance(locs[i + 1].latitude, locs[i + 1].longitude,
                         locs[j + 1].latitude, locs[j + 1].longitude)

calculateDistanceMatrix(locs) ==
  [i \in 0..(Len(locs) - 1) |-> [j \in 0..(Len(locs) - 1) |-> MatrixEntry(locs, i, j)]]

\* ------------------------------------------------------ duration estimate

AVG_SPEED_KMH == 40

SERVICE_TIME_MIN == 5

\* A faulty variant of TravelTime: the quotient taken the wrong way round,
\* (AVG_SPEED_KMH / totalDistance) * 60.
TravelTimeInverted(totalDistance) ==
  IF totalDistance = 0 THEN 0
  ELSE RoundDiv(AVG_SPEED_KMH * 1000000, totalDistance) * 60

\* (totalDistance / AVG_SPEED_KMH) * 60, in 1/1000 minute, for a distance in
\* metres.
TravelTime(totalDistance) == RoundDiv(totalDistance, AVG_SPEED_KMH) * 60

ServiceTime(numStops) == numStops * SERVICE_TIME_MIN

calculateEstimatedDuration(totalDistance, numStops) ==
  MathRound(TravelTime(totalDistance) + 1000 * ServiceTime(numStops), 1000)

\* A faulty variant of RoundTo2Decimals: Math.floor in place of Math.round.
RoundTo2DecimalsFloor(totalDistance) == 10 * (totalDistance \div 10)

\* Math.round(totalDistance * 100) / 100: a distance in metres rounded to a
\* whole number of hundredths of a kilometre, in metres.
RoundTo2Decimals(totalDistance) == 10 * MathRound(totalDistance, 10)

\* ------------------------------------------------------------------ state

VARIABLES
  locations,       \* the argument of optimizeRouteNearestNeighbor
  pc,              \* where the call stands: "call", "loop", "returned", "idle"
  distanceMatrix,  \* const distanceMatrix
  visited,         \* const visited: the set of indices visited
  sequence,        \* const sequence: the indices in visiting order
  currentIndex,    \* let currentIndex
  totalDistance,   \* let totalDistance (metres)
  iterations,      \* passes through the while loop so far
  result,          \* the OptimizedRoute returned, once pc = "returned"
  distance1,       \* calculateEstimatedDuration: a first totalDistance,
  distance2,       \*   a second one,
  numStops,        \*   their common numStops,
  duration1,       \*   and the two values returned
  duration2,
  calls,           \* two invocations in flight: each one's argument and locals
  route,           \* the Route row of the database
  routeStops,      \* the RouteStop rows, by orderId: the sequence stored
  orders,          \* the Order rows, by id
  driver,          \* the Driver row of the route's driver
  request,         \* the optimizeRoute request in flight: its locals
  routeTable,      \* the Route table: the rows of all drivers' routes
  routeIds,        \* how many Route ids were generated so far
  stopTable,       \* the RouteStop table: the rows in the order of creation
  driverTable,     \* the Driver table, by id
  orderTable,      \* the Order table, by id: status, and updatedAt changed
  response,        \* the response to the request served last
  assigns          \* the assignOrdersToRoute requests in flight: their locals

optimizerVars ==
  << locations, pc, distanceMatrix, visited, sequence, currentIndex,
     totalDistance, iterations, result >>

estimateVars == << distance1, distance2, numStops, duration1, duration2 >>

concurrentVars == << calls >>

controllerVars == << route, routeStops, orders, driver, request >>

fleetVars ==
  << routeTable, routeIds, stopTable, driverTable, orderTable, response,
     assigns >>

vars ==
  << optimizerVars, estimateVars, concurrentVars, controllerVars, fleetVars >>

\* The longest list passed to either of two invocations in flight together.
MaxConcurrentStops == 4

\* The longest orderIds array of an assign-orders request.
MaxAssign == 2

\* ----------------------------------------------------------------- inputs

\* Identifiers as the caller assigns them: order keys, all different, in an
\* order unrelated to the list order.
UniqueIds(n) == [k \in 1..n |-> 100 - k]

\* The optimizer does not look at the identifiers, so a list whose last stop
\* repeats the identifier of its first stop is an input too.
IdLists(n) ==
  {UniqueIds(n)} \cup
  (IF n >= 2 THEN {[UniqueIds(n) EXCEPT ![n] = UniqueIds(n)[1]]} ELSE {})

Inputs ==
  UNION { { [k \in 1..n |-> Location(ids[k], at[k][1], at[k][2])] :
              ids \in IdLists(n), at \in [1..n -> Points] } : n \in 0..MaxStops }

\* No OptimizedRoute yet.
NoResult ==
  [sequence |-> << >>, totalDistance |-> 0, estimatedDuration |-> 0, algorithm |-> "none"]

OptimizedRoute(seq, dist, dur) ==
  [sequence |-> seq, totalDistance |-> dist, estimatedDuration |-> dur,
   algorithm |-> "nearest_neighbor"]

EstimateIdle ==
  /\ distance1 = 0
  /\ distance2 = 0
  /\ numStops = 1
  /\ duration1 = 0
  /\ duration2 = 0

\* No invocation in flight.
ConcurrentIdle == calls = << >>

\* No route, no stop, no driver looked at and no request in flight.
ControllerIdle ==
  /\ route = << >>
  /\ routeStops = << >>
  /\ orders = << >>
  /\ driver = << >>
  /\ request = << >>

\* No table of routes, stops, drivers or orders and no request served.
FleetIdle ==
  /\ routeTable = << >>
  /\ routeIds = 0
  /\ stopTable = << >>
  /\ driverTable = << >>
  /\ orderTable = << >>
  /\ response = << >>
  /\ assigns = << >>

Init ==
  /\ locations \in Inputs
  /\ pc = "call"
  /\ distanceMatrix = << >>
  /\ visited = {}
  /\ sequence = << >>
  /\ currentIndex = 0
  /\ totalDistance = 0
  /\ iterations = 0
  /\ result = NoResult
  /\ EstimateIdle
  /\ ConcurrentIdle
  /\ ControllerIdle
  /\ FleetIdle

\* ------------------------------------------- optimizeRouteNearestNeighbor

\* A faulty variant of EmptyResult: the one-stop duration for no stop.
EmptyResultTenMinutes == OptimizedRoute(<< >>, 0, 10)

\* if (locations.length === 0) return { sequence: [], ... }
EmptyResult == OptimizedRoute(<< >>, 0, 0)

ReturnEmpty ==
  /\ pc = "call"
  /\ Len(locations) = 0
  /\ result' = EmptyResult
  /\ pc' = "returned"
  /\ UNCHANGED << locations, distanceMatrix, visited, sequence, currentIndex,
                  totalDistance, iterations, estimateVars, concurrentVars, controllerVars,
                  fleetVars >>

\* A faulty variant of SingleResult: the duration taken from the formula.
SingleResultFromFormula(locs) ==
  OptimizedRoute(<< locs[1].id >>, 0, calculateEstimatedDuration(0, 1))

\* if (locations.length === 1) return { sequence: [locations[0].id], ... }
SingleResult(locs) == OptimizedRoute(<< locs[1].id >>, 0, 10)

ReturnSingle ==
  /\ pc = "call"
  /\ Len(locations) = 1
  /\ result' = SingleResult(locations)
  /\ pc' = "returned"
  /\ UNCHANGED << locations, distanceMatrix, visited, sequence, currentIndex,
                  totalDistance, iterations, estimateVars, concurrentVars, controllerVars,
                  fleetVars >>

\* A faulty variant of FirstIndex: the tour starts at the last location.
FirstIndexLast == Len(locations) - 1

\* The index the tour starts at: currentIndex = 0, visited.add(0),
\* sequence.push(0).
FirstIndex == 0

\* A faulty variant of InitialVisited: visited.add(0) left out.
InitialVisitedNone == {}

\* The visited set once the first location is visited.
InitialVisited == {FirstIndex}

\* A faulty variant of Begin: the list is reversed in place so that the tour
\* starts at its last element, locations.reverse().
BeginReversing ==
  /\ pc = "call"
  /\ Len(locations) >= 2
  /\ locations' = [k \in 1..Len(locations) |-> locations[Len(locations) + 1 - k]]
  /\ distanceMatrix' = calculateDistanceMatrix(locations')
  /\ visited' = InitialVisited
  /\ sequence' = << FirstIndex >>
  /\ currentIndex' = FirstIndex
  /\ totalDistance' = 0
  /\ pc' = "loop"
  /\ UNCHANGED << iterations, result, estimateVars, concurrentVars, controllerVars,
                  fleetVars >>

\* Two or more stops: the matrix is computed and the first stop visited.
Begin ==
  /\ pc = "call"
  /\ Len(locations) >= 2
  /\ distanceMatrix' = calculateDistanceMatrix(locations)
  /\ visited' = InitialVisited
  /\ sequence' = << FirstIndex >>
  /\ currentIndex' = FirstIndex
  /\ totalDistance' = 0
  /\ pc' = "loop"
  /\ UNCHANGED << locations, iterations, result, estimateVars, concurrentVars, controllerVars,
                  fleetVars >>

\* nearestIndex while no unvisited location has been found.
NotFound == -1

\* A faulty variant of CandidateDistance: the distance from the first stop,
\* not from the current one.
CandidateDistanceFromStart(matrix, current, i) == matrix[0][i]

\* const distance = distanceMatrix[currentIndex][i]
CandidateDistance(matrix, current, i) == matrix[current][i]

\* A faulty variant of Closer: <= in place of <.
CloserOrEqual(distance, nearestDistance) ==
  ~IsNaN(distance) /\ ~IsNaN(nearestDistance) /\ distance <= nearestDistance

\* if (distance < nearestDistance)
Closer(distance, nearestDistance) == Less(distance, nearestDistance)

\* The for loop from index i on, with the nearest found so far.
RECURSIVE Scan(_, _, _, _, _, _, _)
Scan(matrix, seen, current, n, i, nearestIndex, nearestDistance) ==
  IF i >= n THEN [index |-> nearestIndex, distance |-> nearestDistance]
  ELSE IF i \notin seen /\ Closer(CandidateDistance(matrix, current, i), nearestDistance)
       THEN Scan(matrix, seen, current, n, i + 1, i, CandidateDistance(matrix, current, i))
       ELSE Scan(matrix, seen, current, n, i + 1, nearestIndex, nearestDistance)

\* The for loop run from index i down to 0.
RECURSIVE ScanDown(_, _, _, _, _, _)
ScanDown(matrix, seen, current, i, nearestIndex, nearestDistance) ==
  IF i < 0 THEN [index |-> nearestIndex, distance |-> nearestDistance]
  ELSE IF i \notin seen /\ Closer(CandidateDistance(matrix, current, i), nearestDistance)
       THEN ScanDown(matrix, seen, current, i - 1, i, CandidateDistance(matrix, current, i))
       ELSE ScanDown(matrix, seen, current, i - 1, nearestIndex, nearestDistance)

\* A faulty variant of FindNearest: the candidates are tried from the last
\* index down, so that of equally near stops the last one is taken.
FindNearestFromEnd(matrix, seen, current, n) ==
  ScanDown(matrix, seen, current, n - 1, NotFound, Infinity)

\* The nearest unvisited location, or NotFound.
FindNearest(matrix, seen, current, n) ==
  Scan(matrix, seen, current, n, 0, NotFound, Infinity)

\* while (visited.size < n)
LoopCondition == Cardinality(visited) < Len(locations)

\* One pass through the while loop.  When no unvisited location compares
\* below Infinity, nearestIndex stays -1, the pass changes nothing and the
\* loop condition still holds.  The code has no limit on the passes; only
\* MaxIterations of them are followed.
Iterate ==
  /\ pc = "loop"
  /\ LoopCondition
  /\ iterations < MaxIterations
  /\ LET nearest == FindNearest(distanceMatrix, visited, currentIndex, Len(locations))
     IN  IF nearest.index # NotFound
         THEN /\ visited' = visited \cup {nearest.index}
              /\ sequence' = Append(sequence, nearest.index)
              /\ totalDistance' = totalDistance + nearest.distance
              /\ currentIndex' = nearest.index
         ELSE UNCHANGED << visited, sequence, totalDistance, currentIndex >>
  /\ iterations' = iterations + 1
  /\ UNCHANGED << locations, pc, distanceMatrix, result, estimateVars, concurrentVars, controllerVars,
                  fleetVars >>

\* sequence.map((index) => locations[index].id)
OptimizedSequence(locs, seq) == [k \in 1..Len(seq) |-> locs[seq[k] + 1].id]

\* The arguments of the call of calculateEstimatedDuration.
DurationDistance(total) == total

\* A faulty variant of DurationStops: the number of hops, not of stops.
DurationHops(locs) == Len(locs) - 1

DurationStops(locs) == Len(locs)

\* The loop has ended: the result is built and returned.
Finish ==
  /\ pc = "loop"
  /\ ~LoopCondition
  /\ result' = OptimizedRoute(
                 OptimizedSequence(locations, sequence),
                 RoundTo2Decimals(totalDistance),
                 calculateEstimatedDuration(DurationDistance(totalDistance),
                                            DurationStops(locations)))
  /\ pc' = "returned"
  /\ UNCHANGED << locations, distanceMatrix, visited, sequence, currentIndex,
                  totalDistance, iterations, estimateVars, concurrentVars, controllerVars,
                  fleetVars >>

Next ==
  \/ ReturnEmpty
  \/ ReturnSingle
  \/ Begin
  \/ Iterate
  \/ Finish

Spec == Init /\ [][Next]_vars

\* -------------------- optimizeRouteNearestNeighbor as a function of its input

\* The while loop run from the locals given to its end, and the value then
\* returned.  When a pass finds no unvisited location the loop never ends and
\* nothing is returned: NoResult.
RECURSIVE NearestNeighborLoop(_, _, _, _, _)
NearestNeighborLoop(locs, matrix, seen, seq, total) ==
  IF ~(Cardinality(seen) < Len(locs))
  THEN OptimizedRoute(
         OptimizedSequence(locs, seq),
         RoundTo2Decimals(total),
         calculateEstimatedDuration(DurationDistance(total), DurationStops(locs)))
  ELSE LET nearest == FindNearest(matrix, seen, seq[Len(seq)], Len(locs))
       IN  IF nearest.index = NotFound
           THEN NoResult
           ELSE NearestNeighborLoop(locs, matrix, seen \cup {nearest.index},
                                    Append(seq, nearest.index),
                                    total + nearest.distance)

\* What a call of optimizeRouteNearestNeighbor on locs returns; NoResult when
\* it does not return.
optimizeRouteNearestNeighbor(locs) ==
  IF Len(locs) = 0 THEN EmptyResult
  ELSE IF Len(locs) = 1 THEN SingleResult(locs)
  ELSE NearestNeighborLoop(locs, calculateDistanceMatrix(locs), InitialVisited,
                           << FirstIndex >>, 0)

\* ------------------------------ calculateDistanceMatrix as a pure function

MatrixInit ==
  /\ locations \in Inputs
  /\ pc = "matrix"
  /\ distanceMatrix = << >>
  /\ visited = {}
  /\ sequence = << >>
  /\ currentIndex = 0
  /\ totalDistance = 0
  /\ iterations = 0
  /\ result = NoResult
  /\ EstimateIdle
  /\ ConcurrentIdle
  /\ ControllerIdle
  /\ FleetIdle

\* A call of calculateDistanceMatrix on the list.
BuildMatrix ==
  /\ pc = "matrix"
  /\ distanceMatrix' = calculateDistanceMatrix(locations)
  /\ pc' = "matrix-built"
  /\ UNCHANGED << locations, visited, sequence, currentIndex, totalDistance,
                  iterations, result, estimateVars, concurrentVars, controllerVars,
                  fleetVars >>

MatrixNext == BuildMatrix

MatrixSpec == MatrixInit /\ [][MatrixNext]_vars

\* --------------------------- calculateEstimatedDuration as a pure function

\* Distances, in metres, the estimate is evaluated at.
EstimateDistances == { EstimateStep * k : k \in 0..MaxEstimateSteps }

EstimateInit ==
  /\ locations = << >>
  /\ pc = "idle"
  /\ distanceMatrix = << >>
  /\ visited = {}
  /\ sequence = << >>
  /\ currentIndex = 0
  /\ totalDistance = 0
  /\ iterations = 0
  /\ result = NoResult
  /\ distance1 \in EstimateDistances
  /\ distance2 \in EstimateDistances
  /\ numStops \in 1..MaxStops
  /\ duration1 = 0
  /\ duration2 = 0
  /\ ConcurrentIdle
  /\ ControllerIdle
  /\ FleetIdle

Estimate ==
  /\ pc = "idle"
  /\ duration1' = calculateEstimatedDuration(distance1, numStops)
  /\ duration2' = calculateEstimatedDuration(distance2, numStops)
  /\ pc' = "estimated"
  /\ UNCHANGED << locations, distanceMatrix, visited, sequence, currentIndex,
                  totalDistance, iterations, result, distance1, distance2, numStops,
                  concurrentVars, controllerVars,
                  fleetVars >>

EstimateNext == Estimate

EstimateSpec == EstimateInit /\ [][EstimateNext]_vars

\* ------------------------------------------------------------- properties

\* The number of places of the sequence s that hold x.
Occurrences(s, x) == Cardinality({k \in 1..Len(s) : s[k] = x})

\* The identifiers of the input list, in list order.
InputIds == [k \in 1..Len(locations) |-> locations[k].id]

\* The indices not yet visited when the k-th element of sequence was chosen.
UnvisitedAt(k) ==
  (0..(Len(locations) - 1)) \ {sequence[m] : m \in 1..(k - 1)}

\* The distance-matrix value of the hop that ends at the k-th element.
HopDistance(k) == distanceMatrix[sequence[k - 1]][sequence[k]]

\* The sum of the distance-matrix entries between the consecutive stops of
\* the first k elements of sequence.
RECURSIVE PathDistance(_)
PathDistance(k) ==
  IF k <= 1 THEN 0 ELSE PathDistance(k - 1) + HopDistance(k)

\* C1: whenever optimizeRouteNearestNeighbor returns for a non-empty list of
\* N stops, the returned sequence has length N and holds every identifier as
\* often as the input does, and (N >= 2) every input index was visited
\* exactly once.
C1_Permutation ==
  (pc = "returned" /\ Len(locations) >= 1) =>
    /\ Len(result.sequence) = Len(locations)
    /\ \A k \in 1..Len(locations) :
         Occurrences(result.sequence, locations[k].id) =
           Occurrences(InputIds, locations[k].id)
    /\ \A k \in 1..Len(result.sequence) :
         \E m \in 1..Len(locations) : result.sequence[k] = locations[m].id
    /\ Len(locations) >= 2 =>
         \A i \in 0..(Len(locations) - 1) : Occurrences(sequence, i) = 1

\* C1 witness: a call with three or more stops, all identifiers different,
\* has returned them in an order other than the input order.
C1_Witness ==
  /\ pc = "returned"
  /\ Len(locations) >= 3
  /\ \A k, m \in 1..Len(locations) : k # m => locations[k].id # locations[m].id
  /\ result.sequence # InputIds

\* C2 (as claimed): for N >= 2 stops every pass through the loop visits
\* exactly one stop that was not visited before, so the loop ends after N - 1
\* passes.
C2_LoopTerminates ==
  pc = "loop" =>
    /\ Cardinality(visited) = iterations + 1
    /\ Len(sequence) = iterations + 1
    /\ iterations <= Len(locations) - 1

\* C3: every stop appended has the least distance-matrix value from the stop
\* before it among the stops unvisited at that moment (none of them is
\* strictly nearer); so [A, B, C] with C nearer to A than B comes back as
\* [A, C, B], and on the corners of a square the second stop is never the
\* corner diagonally opposite the first.
C3_NearestChosen ==
  /\ \A k \in 2..Len(sequence) :
       /\ sequence[k] \in UnvisitedAt(k)
       /\ ~IsNaN(HopDistance(k))
       /\ \A j \in UnvisitedAt(k) :
            ~Less(distanceMatrix[sequence[k - 1]][j], HopDistance(k))
  /\ (pc = "returned" /\ Len(locations) = 3
        /\ Less(distanceMatrix[0][2], distanceMatrix[0][1]))
       => sequence = << 0, 2, 1 >>
  /\ (Len(sequence) >= 2 /\ Len(locations) = 4
        /\ {<<locations[k].latitude, locations[k].longitude>> : k \in 1..4}
             = {<<0, 0>>, <<0, 1>>, <<1, 1>>, <<1, 0>>})
       => \/ locations[sequence[2] + 1].latitude = locations[1].latitude
          \/ locations[sequence[2] + 1].longitude = locations[1].longitude

\* C3 witness: [A, B, C] with C nearer to A than B has come back as
\* [A, C, B].
C3_Witness ==
  /\ pc = "returned"
  /\ Len(locations) = 3
  /\ Less(distanceMatrix[0][2], distanceMatrix[0][1])
  /\ sequence = << 0, 2, 1 >>
  /\ result.sequence = << locations[1].id, locations[3].id, locations[2].id >>

\* C4: the first element of the returned sequence is the identifier of the
\* first stop of the input list.
C4_StartAnchored ==
  (pc = "returned" /\ Len(locations) >= 1) =>
    result.sequence[1] = locations[1].id

\* C4 witness: a call has returned for a list whose first stop is not where
\* the other stops are nearest to each other: the second stop of the input
\* was moved, the first was not.
C4_Witness ==
  /\ pc = "returned"
  /\ Len(locations) >= 3
  /\ locations[1].id # locations[2].id
  /\ result.sequence[1] = locations[1].id
  /\ result.sequence[2] # locations[2].id

\* C5: when several unvisited stops are at the same distance from the
\* current stop as the stop chosen, the stop chosen is the one of smallest
\* input index.
C5_TieBreak ==
  \A k \in 2..Len(sequence) :
    \A j \in UnvisitedAt(k) :
      (~IsNaN(HopDistance(k)) /\ distanceMatrix[sequence[k - 1]][j] = HopDistance(k))
        => sequence[k] <= j

\* C5 witness: a stop was chosen while another unvisited stop, at a different
\* place, was at exactly the same distance.
C5_Witness ==
  \E k \in 2..Len(sequence) :
    \E j \in UnvisitedAt(k) :
      /\ j # sequence[k]
      /\ distanceMatrix[sequence[k - 1]][j] = HopDistance(k)
      /\ locations[j + 1].latitude # locations[sequence[k] + 1].latitude

\* C6: the total distance returned is the sum of the distance-matrix entries
\* between the consecutive stops of the returned order, rounded to 2 decimals
\* (a whole number of 10 m, at most half of it away), and is not negative.
C6_TotalDistance ==
  pc = "returned" =>
    /\ result.totalDistance >= 0
    /\ result.totalDistance % 10 = 0
    /\ result.totalDistance - 5 <= PathDistance(Len(sequence))
    /\ PathDistance(Len(sequence)) < result.totalDistance + 5
    /\ \A k \in 2..Len(sequence) : HopDistance(k) >= 0

\* C6 witness: a call with three or more stops has returned a positive total
\* that the rounding changed.
C6_Witness ==
  /\ pc = "returned"
  /\ Len(locations) >= 3
  /\ result.totalDistance > 0
  /\ result.totalDistance # PathDistance(Len(sequence))

\* C7: for the empty list the call returns the empty sequence, total
\* distance 0 and estimated duration 0, a result like any other.
C7_EmptyCase ==
  (pc = "returned" /\ Len(locations) = 0) =>
    result = [sequence |-> << >>, totalDistance |-> 0, estimatedDuration |-> 0,
              algorithm |-> "nearest_neighbor"]

\* C7 witness: the call on the empty list has returned.
C7_Witness ==
  /\ pc = "returned"
  /\ locations = << >>
  /\ result # NoResult

\* C8: for a list of one stop the call returns that stop's identifier alone,
\* total distance 0 and estimated duration 10, which is not what the duration
\* formula gives for distance 0 and one stop.
C8_SingleCase ==
  (pc = "returned" /\ Len(locations) = 1) =>
    /\ result.sequence = << locations[1].id >>
    /\ result.totalDistance = 0
    /\ result.estimatedDuration = 10
    /\ result.estimatedDuration # calculateEstimatedDuration(0, 1)

\* C8 witness: the call on a one-stop list has returned.
C8_Witness ==
  /\ pc = "returned"
  /\ Len(locations) = 1
  /\ Len(result.sequence) = 1

\* The value of (D / 40) * 60 + 5 * N in 1/1000 minute, D in metres.
DurationFormula(D, N) == RoundDiv(D, 40) * 60 + 5000 * N

\* C9: for N >= 2 the estimated duration returned is (D / 40) * 60 + 5 * N
\* rounded to the nearest whole minute (half a minute rounds up), D the
\* accumulated distance of the returned order and N the number of stops; it
\* is a non-negative integer.
C9_Duration ==
  (pc = "returned" /\ Len(locations) >= 2) =>
    LET x == DurationFormula(PathDistance(Len(sequence)), Len(locations))
        d == result.estimatedDuration
    IN  /\ d \in Nat
        /\ 1000 * d - 500 <= x
        /\ x < 1000 * d + 500

\* C9 witness: a call with two or more stops has returned a duration that
\* holds travel time and that the rounding changed.
C9_Witness ==
  /\ pc = "returned"
  /\ Len(locations) >= 2
  /\ result.estimatedDuration > 5 * Len(locations)
  /\ DurationFormula(PathDistance(Len(sequence)), Len(locations)) % 1000 # 0

\* C10: with the stop count fixed, a distance that is not smaller gives an
\* estimated duration that is not smaller.
C10_DurationMonotonic ==
  (pc = "estimated" /\ distance1 <= distance2) => duration1 <= duration2

\* C10 witness: the estimate was taken at two distances and the larger one
\* gave the larger duration.
C10_Witness ==
  /\ pc = "estimated"
  /\ distance1 < distance2
  /\ duration1 < duration2

\* C11: the matrix calculateDistanceMatrix returns for N stops has the rows
\* 0..N-1, each with the columns 0..N-1 (no row at all for N = 0); every
\* diagonal entry is exactly 0 and the entry (i, j), i # j, is
\* calculateDistance on the coordinates of stop i and stop j.
C11_MatrixShape ==
  pc = "matrix-built" =>
    LET n == Len(locations)
    IN  /\ DOMAIN distanceMatrix = 0..(n - 1)
        /\ \A i \in 0..(n - 1) :
              /\ DOMAIN distanceMatrix[i] = 0..(n - 1)
              /\ distanceMatrix[i][i] = 0
              /\ \A j \in (0..(n - 1)) \ {i} :
                    distanceMatrix[i][j] =
                      calculateDistance(locations[i + 1].latitude,
                                        locations[i + 1].longitude,
                                        locations[j + 1].latitude,
                                        locations[j + 1].longitude)

\* C11 witness: the matrix of three stops at three different places is
\* built, with a row whose entries off the diagonal differ.
C11_Witness ==
  /\ pc = "matrix-built"
  /\ Len(locations) = 3
  /\ distanceMatrix[1][0] > 0
  /\ distanceMatrix[1][2] > 0
  /\ distanceMatrix[1][0] # distanceMatrix[1][2]
  /\ distanceMatrix[1][1] = 0

C13_CoLocatedTerminate ==
  ( /\ pc = "loop"
    /\ LoopCondition
    /\ \E i \in 1..Len(locations) : \E j \in 1..Len(locations) :
          /\ i # j
          /\ locations[i].latitude = locations[j].latitude
          /\ locations[i].longitude = locations[j].longitude )
  => FindNearest(distanceMatrix, visited, currentIndex, Len(locations)).index # NotFound

\* C14 (refuted by the code): every call returns a result record, for every
\* list.  The formula says that a call in its loop, run on from where it
\* stands, returns a record of algorithm 'nearest_neighbor'.
C14_AlwaysReturns ==
  pc = "loop" =>
    NearestNeighborLoop(locations, distanceMatrix, visited, sequence,
                        totalDistance).algorithm = "nearest_neighbor"

\* C15: no step of optimizeRouteNearestNeighbor, the call of
\* calculateDistanceMatrix in it included, changes the list passed in: its
\* length, its order and the id and coordinates of each element stay as they
\* were.
C15_InputUnchanged == [][locations' = locations]_vars

\* C15 witness: a call has returned a sequence that is not in input order.
C15_Witness ==
  /\ pc = "returned"
  /\ Len(locations) >= 3
  /\ result.sequence # InputIds

\* ----------------- two invocations of optimizeRouteNearestNeighbor in flight

\* The two invocations.
CallIds == {1, 2}

\* The places of the stops of the two invocations.
ConcurrentPoints == { <<0, 0>>, <<1, 1>> }

ConcurrentInputs ==
  UNION { { [k \in 1..n |-> Location(UniqueIds(n)[k], at[k][1], at[k][2])] :
              at \in [1..n -> ConcurrentPoints] } : n \in 0..MaxConcurrentStops }

\* An invocation on the list locs that has not taken a step.
NewCall(locs) ==
  [locations |-> locs, pc |-> "call", distanceMatrix |-> << >>, visited |-> {},
   sequence |-> << >>, currentIndex |-> 0, totalDistance |-> 0,
   result |-> NoResult]

ConcurrentInit ==
  /\ calls \in [CallIds -> {NewCall(locs) : locs \in ConcurrentInputs}]
  /\ locations = << >>
  /\ pc = "idle"
  /\ distanceMatrix = << >>
  /\ visited = {}
  /\ sequence = << >>
  /\ currentIndex = 0
  /\ totalDistance = 0
  /\ iterations = 0
  /\ result = NoResult
  /\ EstimateIdle
  /\ ControllerIdle
  /\ FleetIdle

\* A faulty variant of Visited: one set kept at module level and shared by
\* all invocations.
VisitedShared(c) == UNION {calls[d].visited : d \in CallIds}

\* const visited = new Set<number>(): the set of the invocation c, a local.
Visited(c) == calls[c].visited

CallReturnEmpty(c) ==
  /\ calls[c].pc = "call"
  /\ Len(calls[c].locations) = 0
  /\ calls' = [calls EXCEPT ![c].result = EmptyResult, ![c].pc = "returned"]
  /\ UNCHANGED << optimizerVars, estimateVars, controllerVars, fleetVars >>

CallReturnSingle(c) ==
  /\ calls[c].pc = "call"
  /\ Len(calls[c].locations) = 1
  /\ calls' = [calls EXCEPT ![c].result = SingleResult(calls[c].locations),
                            ![c].pc = "returned"]
  /\ UNCHANGED << optimizerVars, estimateVars, controllerVars, fleetVars >>

CallBegin(c) ==
  /\ calls[c].pc = "call"
  /\ Len(calls[c].locations) >= 2
  /\ calls' = [calls EXCEPT
                 ![c].distanceMatrix = calculateDistanceMatrix(calls[c].locations),
                 ![c].visited = InitialVisited,
                 ![c].sequence = << FirstIndex >>,
                 ![c].currentIndex = FirstIndex,
                 ![c].totalDistance = 0,
                 ![c].pc = "loop"]
  /\ UNCHANGED << optimizerVars, estimateVars, controllerVars, fleetVars >>

\* One pass through the while loop of the invocation c.
CallIterate(c) ==
  /\ calls[c].pc = "loop"
  /\ Cardinality(Visited(c)) < Len(calls[c].locations)
  /\ LET nearest == FindNearest(calls[c].distanceMatrix, Visited(c),
                                calls[c].currentIndex, Len(calls[c].locations))
     IN  /\ nearest.index # NotFound
         /\ calls' = [calls EXCEPT
                        ![c].visited = Visited(c) \cup {nearest.index},
                        ![c].sequence = Append(calls[c].sequence, nearest.index),
                        ![c].totalDistance = calls[c].totalDistance + nearest.distance,
                        ![c].currentIndex = nearest.index]
  /\ UNCHANGED << optimizerVars, estimateVars, controllerVars, fleetVars >>

CallFinish(c) ==
  /\ calls[c].pc = "loop"
  /\ ~(Cardinality(Visited(c)) < Len(calls[c].locations))
  /\ calls' = [calls EXCEPT
                 ![c].result =
                   OptimizedRoute(
                     OptimizedSequence(calls[c].locations, calls[c].sequence),
                     RoundTo2Decimals(calls[c].totalDistance),
                     calculateEstimatedDuration(
                       DurationDistance(calls[c].totalDistance),
                       DurationStops(calls[c].locations))),
                 ![c].pc = "returned"]
  /\ UNCHANGED << optimizerVars, estimateVars, controllerVars, fleetVars >>

ConcurrentNext ==
  \E c \in CallIds :
    \/ CallReturnEmpty(c)
    \/ CallReturnSingle(c)
    \/ CallBegin(c)
    \/ CallIterate(c)
    \/ CallFinish(c)

ConcurrentSpec == ConcurrentInit /\ [][ConcurrentNext]_vars

\* What an invocation returns when it runs alone, for each list.
ResultAlone == [locs \in ConcurrentInputs |-> optimizeRouteNearestNeighbor(locs)]

\* C12: an invocation keeps nothing from one call to the next and shares
\* nothing with another: whatever the other invocation was given and however
\* the steps of the two interleave, the result returned is the one the
\* invocation returns when run alone, so equal lists get equal results.
C12_Stateless ==
  /\ \A c \in CallIds :
        calls[c].pc = "returned" => calls[c].result = ResultAlone[calls[c].locations]
  /\ \A c \in CallIds : \A d \in CallIds :
        ( /\ calls[c].pc = "returned"
          /\ calls[d].pc = "returned"
          /\ calls[c].locations = calls[d].locations )
        => calls[c].result = calls[d].result

\* C12 witness: an invocation on three stops has returned a route of positive
\* length while the other invocation, on a different list of three stops,
\* stands in the middle of its loop.
C12_Witness ==
  /\ calls[1].pc = "returned"
  /\ Len(calls[1].locations) = 3
  /\ calls[1].result.totalDistance > 0
  /\ calls[2].pc = "loop"
  /\ Len(calls[2].locations) = 3
  /\ Cardinality(calls[2].visited) = 2
  /\ calls[1].locations # calls[2].locations

\* -------------------------------------------------------- route controller
\*
\* One route and its driver, the orders that can be put on it, and the
\* requests of the route controller.  optimizeRoute is followed await by
\* await; the other handlers are taken as one step each.  Time stamps, notes
\* and the fields the handlers only copy into responses are left out.

\* null: a column without a value, a row that does not exist.
Null == -999

\* enum RouteStatus
RouteStatus == {"PENDING", "IN_PROGRESS", "COMPLETED", "CANCELLED", "PARTIAL"}

\* latitude and longitude of the orders in the database, by id: three orders
\* at three places and one with a latitude only.
OrderCoordinates == << <<0, 0>>, <<1, 1>>, <<0, 1>>, <<0, Null>> >>

OrderIds == DOMAIN OrderCoordinates

\* The Order row of id o before it is assigned to a route.
Order(o) ==
  [status |-> "PENDING", latitude |-> OrderCoordinates[o][1],
   longitude |-> OrderCoordinates[o][2]]

\* No Route row.
NoRoute ==
  [exists |-> FALSE, status |-> "NONE", totalDistance |-> Null,
   estimatedDuration |-> Null]

\* The Route row prisma.route.create makes: status PENDING, no totals yet.
NewRoute ==
  [exists |-> TRUE, status |-> "PENDING", totalDistance |-> Null,
   estimatedDuration |-> Null]

\* No optimizeRoute request in flight.
IdleRequest ==
  [pc |-> "idle", status |-> 0, stops |-> << >>,
   locations |-> << >>, optimizedResult |-> NoResult, i |-> 0]

ControllerInit ==
  /\ route = NoRoute
  /\ routeStops = [o \in OrderIds |-> Null]
  /\ orders = [o \in OrderIds |-> Order(o)]
  /\ driver \in {[isActive |-> a, status |-> "AVAILABLE"] : a \in BOOLEAN}
  /\ request = IdleRequest
  /\ locations = << >>
  /\ pc = "idle"
  /\ distanceMatrix = << >>
  /\ visited = {}
  /\ sequence = << >>
  /\ currentIndex = 0
  /\ totalDistance = 0
  /\ iterations = 0
  /\ result = NoResult
  /\ EstimateIdle
  /\ ConcurrentIdle
  /\ FleetIdle

\* createRoute: 400 for a driver that is not active, else a PENDING route.
\* The model holds one route, so the request is followed while there is none.
CreateRoute ==
  /\ ~route.exists
  /\ route' = IF driver.isActive THEN NewRoute ELSE route
  /\ UNCHANGED << routeStops, orders, driver, request, optimizerVars,
                  estimateVars, concurrentVars, fleetVars >>

\* The bodies of the update requests: req.body is passed to
\* prisma.route.update as it comes, so it may name the status.
UpdateBodies ==
  {[status |-> s] : s \in RouteStatus \ {"PARTIAL"}} \cup {[notes |-> "notes"]}

\* prisma.route.update({ where: { id }, data: updateData })
UpdatedRoute(row, updateData) ==
  IF "status" \in DOMAIN updateData
  THEN [row EXCEPT !.status = updateData.status]
  ELSE row

\* updateRoute: 404 without the route, 400 for a COMPLETED route, else the
\* body is written.
UpdateRoute(updateData) ==
  /\ route' = IF route.exists /\ route.status # "COMPLETED"
              THEN UpdatedRoute(route, updateData)
              ELSE route
  /\ UNCHANGED << routeStops, orders, driver, request, optimizerVars,
                  estimateVars, concurrentVars, fleetVars >>

\* The orders that have a RouteStop row.
StopOrders(stops) == {o \in OrderIds : stops[o] # Null}

\* The largest element of a set of positive numbers, 0 for the empty set.
RECURSIVE SetMax(_)
SetMax(S) ==
  IF S = {} THEN 0
  ELSE LET x == CHOOSE y \in S : TRUE
           m == SetMax(S \ {x})
       IN  IF x > m THEN x ELSE m

\* route.stops.reduce((max, stop) => stop.sequence > max ? stop.sequence : max, 0)
MaxSequence(stops) == SetMax({stops[o] : o \in StopOrders(stops)})

\* The orderIds arrays of the assign requests: no order named twice.
AssignLists ==
  UNION { {s \in [1..n -> OrderIds] : \A k \in 1..n : \A l \in 1..n : s[k] = s[l] => k = l} :
          n \in 0..MaxAssign }

\* The loop of assignOrdersToRoute from index i (counted from 1) on: an
\* order that has a stop already is counted as failed, any other gets a stop
\* of sequence maxSequence + i and the status ASSIGNED.
RECURSIVE AssignLoop(_, _, _, _, _)
AssignLoop(orderIds, i, stops, rows, maxSequence) ==
  IF i > Len(orderIds) THEN [routeStops |-> stops, orders |-> rows]
  ELSE IF stops[orderIds[i]] # Null
       THEN AssignLoop(orderIds, i + 1, stops, rows, maxSequence)
       ELSE AssignLoop(orderIds, i + 1,
                       [stops EXCEPT ![orderIds[i]] = maxSequence + i],
                       [rows EXCEPT ![orderIds[i]].status = "ASSIGNED"],
                       maxSequence)

\* assignOrdersToRoute: 400 for an empty array, 404 without the route, 400
\* for a COMPLETED route, else the loop.
AssignOrders(orderIds) ==
  /\ IF Len(orderIds) > 0 /\ route.exists /\ route.status # "COMPLETED"
     THEN LET done == AssignLoop(orderIds, 1, routeStops, orders,
                                 MaxSequence(routeStops))
          IN  /\ routeStops' = done.routeStops
              /\ orders' = done.orders
     ELSE UNCHANGED << routeStops, orders >>
  /\ UNCHANGED << route, driver, request, optimizerVars, estimateVars,
                  concurrentVars, fleetVars >>

\* startRoute: 404, 400 without stops, 400 unless PENDING, else the
\* transaction: the route IN_PROGRESS and the driver ON_ROUTE.
StartRoute ==
  /\ IF route.exists /\ StopOrders(routeStops) # {} /\ route.status = "PENDING"
     THEN /\ route' = [route EXCEPT !.status = "IN_PROGRESS"]
          /\ driver' = [driver EXCEPT !.status = "ON_ROUTE"]
     ELSE UNCHANGED << route, driver >>
  /\ UNCHANGED << routeStops, orders, request, optimizerVars, estimateVars,
                  concurrentVars, fleetVars >>

\* completeRoute: 404, 400 unless IN_PROGRESS, else the transaction: the
\* route COMPLETED and the driver AVAILABLE.
CompleteRoute ==
  /\ IF route.exists /\ route.status = "IN_PROGRESS"
     THEN /\ route' = [route EXCEPT !.status = "COMPLETED"]
          /\ driver' = [driver EXCEPT !.status = "AVAILABLE"]
     ELSE UNCHANGED << route, driver >>
  /\ UNCHANGED << routeStops, orders, request, optimizerVars, estimateVars,
                  concurrentVars, fleetVars >>

\* The stops read with orderBy: { sequence: 'asc' }: every listing of the
\* orders in S by rising sequence.  Stops of equal sequence come in the order
\* the database happens to return them in.
RECURSIVE OrderedBySequence(_, _)
OrderedBySequence(stops, S) ==
  IF S = {} THEN { << >> }
  ELSE UNION { { << [orderId |-> o, sequence |-> stops[o]] >> \o rest :
                   rest \in OrderedBySequence(stops, S \ {o}) } :
               o \in {x \in S : \A y \in S : stops[x] <= stops[y]} }

\* stop.order.latitude !== null && stop.order.longitude !== null
HasCoordinates(stop) ==
  orders[stop.orderId].latitude # Null /\ orders[stop.orderId].longitude # Null

validStops(stops) == SelectSeq(stops, HasCoordinates)

\* validStops.map((stop) => ({ id: stop.orderId, ... }))
StopLocations(stops) ==
  [k \in 1..Len(stops) |->
     Location(stops[k].orderId, orders[stops[k].orderId].latitude,
              orders[stops[k].orderId].longitude)]

\* The response is sent: the request is over and its locals are gone.
Responded(code) == [IdleRequest EXCEPT !.pc = "responded", !.status = code]

\* A faulty variant of OptimizeFetch: a route none of whose stops has
\* coordinates gets its totals cleared before the request is rejected.
OptimizeFetchClearing ==
  /\ request.pc \in {"idle", "responded"}
  /\ IF ~route.exists
     THEN /\ request' = Responded(404)
          /\ UNCHANGED route
     ELSE \E stops \in OrderedBySequence(routeStops, StopOrders(routeStops)) :
            LET read == [IdleRequest EXCEPT !.stops = stops]
            IN  IF Len(stops) = 0 \/ route.status = "COMPLETED"
                THEN /\ request' = Responded(400)
                     /\ UNCHANGED route
                ELSE IF Len(validStops(stops)) = 0
                THEN /\ request' = Responded(400)
                     /\ route' = [route EXCEPT !.totalDistance = 0,
                                               !.estimatedDuration = 0]
                ELSE LET locs == StopLocations(validStops(stops))
                         optimizedResult == optimizeRouteNearestNeighbor(locs)
                     IN  /\ request' = [read EXCEPT
                                          !.locations = locs,
                                          !.optimizedResult = optimizedResult,
                                          !.pc = IF optimizedResult = NoResult
                                                 THEN "optimizing" ELSE "writing"]
                         /\ UNCHANGED route
  /\ UNCHANGED << routeStops, orders, driver, optimizerVars,
                  estimateVars, concurrentVars, fleetVars >>

\* optimizeRoute up to its first write: the route is read with its stops, the
\* request rejected with 404 or 400, or the optimizer called on the stops
\* that have coordinates.  A call that does not return leaves the request at
\* "optimizing".
OptimizeFetch ==
  /\ request.pc \in {"idle", "responded"}
  /\ IF ~route.exists
     THEN request' = Responded(404)
     ELSE \E stops \in OrderedBySequence(routeStops, StopOrders(routeStops)) :
            LET read == [IdleRequest EXCEPT !.stops = stops]
            IN  IF Len(stops) = 0 \/ route.status = "COMPLETED" \/ Len(validStops(stops)) = 0
                THEN request' = Responded(400)
                ELSE LET locs == StopLocations(validStops(stops))
                         optimizedResult == optimizeRouteNearestNeighbor(locs)
                     IN  request' = [read EXCEPT
                                      !.locations = locs,
                                      !.optimizedResult = optimizedResult,
                                      !.pc = IF optimizedResult = NoResult
                                             THEN "optimizing" ELSE "writing"]
  /\ UNCHANGED << route, routeStops, orders, driver, optimizerVars,
                  estimateVars, concurrentVars, fleetVars >>

\* find returned undefined.
NoStop == [orderId |-> Null, sequence |-> Null]

\* A faulty variant of FindStop: the stop at index i of route.stops,
\* route.stops[i].
FindStopByIndex(stops, orderId, i) ==
  IF i + 1 <= Len(stops) THEN stops[i + 1] ELSE NoStop

\* route.stops.find((s) => s.orderId === orderId), in pass i of the loop.
FindStop(stops, orderId, i) ==
  LET found == {k \in 1..Len(stops) : stops[k].orderId = orderId}
  IN  IF found = {} THEN NoStop
      ELSE stops[CHOOSE k \in found : \A l \in found : k <= l]

\* A faulty variant of NewSequence: the index itself, counted from 0.
NewSequenceFromZero(i) == i

\* data: { sequence: i + 1 }
NewSequence(i) == i + 1

\* One pass of the for loop of optimizeRoute: one awaited
\* prisma.routeStop.update, which throws when the row is gone.
OptimizeUpdateStop ==
  /\ request.pc = "writing"
  /\ request.i < Len(request.optimizedResult.sequence)
  /\ LET orderId == request.optimizedResult.sequence[request.i + 1]
         stop == FindStop(request.stops, orderId, request.i)
     IN  IF stop = NoStop
         THEN /\ request' = [request EXCEPT !.i = request.i + 1]
              /\ UNCHANGED routeStops
         ELSE IF routeStops[stop.orderId] = Null
         THEN /\ request' = Responded(500)
              /\ UNCHANGED routeStops
         ELSE /\ routeStops' = [routeStops EXCEPT ![stop.orderId] = NewSequence(request.i)]
              /\ request' = [request EXCEPT !.i = request.i + 1]
  /\ UNCHANGED << route, orders, driver, optimizerVars, estimateVars,
                  concurrentVars, fleetVars >>

\* After the loop: the awaited prisma.route.update of totalDistance and
\* estimatedDuration, then the response.
OptimizeUpdateRoute ==
  /\ request.pc = "writing"
  /\ request.i = Len(request.optimizedResult.sequence)
  /\ IF route.exists
     THEN /\ route' = [route EXCEPT
                         !.totalDistance = request.optimizedResult.totalDistance,
                         !.estimatedDuration = request.optimizedResult.estimatedDuration]
          /\ request' = Responded(200)
     ELSE /\ request' = Responded(500)
          /\ UNCHANGED route
  /\ UNCHANGED << routeStops, orders, driver, optimizerVars, estimateVars,
                  concurrentVars, fleetVars >>

\* An awaited database call of the write phase is rejected: the catch block
\* answers 500 and nothing more is written.
OptimizeFail ==
  /\ request.pc = "writing"
  /\ request' = Responded(500)
  /\ UNCHANGED << route, routeStops, orders, driver, optimizerVars,
                  estimateVars, concurrentVars, fleetVars >>

ControllerNext ==
  \/ CreateRoute
  \/ \E updateData \in UpdateBodies : UpdateRoute(updateData)
  \/ \E orderIds \in AssignLists : AssignOrders(orderIds)
  \/ StartRoute
  \/ CompleteRoute
  \/ OptimizeFetch
  \/ OptimizeUpdateStop
  \/ OptimizeUpdateRoute
  \/ OptimizeFail

ControllerSpec == ControllerInit /\ [][ControllerNext]_vars

\* The stops of the result carry the sequence numbers of the result: the
\* order at position k, counted from 1, has the stored sequence k.
AllNew(stops, res) ==
  \A k \in 1..Len(res.sequence) : stops[res.sequence[k]] = k

\* The route carries the totals of the result.
TotalsNew(row, res) ==
  /\ row.totalDistance = res.totalDistance
  /\ row.estimatedDuration = res.estimatedDuration

\* Every stop the request read has the sequence number it was read with.
AllOld(stops, read) ==
  \A k \in 1..Len(read) : stops[read[k].orderId] = read[k].sequence

\* C17 (refuted by the code): a result is stored as a whole.  The formula
\* says that while an optimizeRoute request has a result to store, any
\* request that reads the route finds either the sequence numbers the
\* request read, or all the new ones together with the new totals.
C17_AllOrNothing ==
  request.pc = "writing" =>
    \/ AllOld(routeStops, request.stops)
    \/ /\ AllNew(routeStops, request.optimizedResult)
       /\ TotalsNew(route, request.optimizedResult)

\* C18: when optimizeRoute answers 200, the stop of the order at position k
\* (counted from 0) of the optimizer's sequence has the stored sequence k + 1,
\* the route has the optimizer's totalDistance and estimatedDuration, and
\* every reading of the stops by rising sequence lists the optimized stops in
\* the optimizer's order.
C18_StoredAsOptimized ==
  [][ (request.pc = "writing" /\ request'.status = 200) =>
        LET res == request.optimizedResult
            ids == {res.sequence[k] : k \in 1..Len(res.sequence)}
        IN  /\ \A k \in 0..(Len(res.sequence) - 1) :
                  routeStops'[res.sequence[k + 1]] = k + 1
            /\ route'.totalDistance = res.totalDistance
            /\ route'.estimatedDuration = res.estimatedDuration
            /\ \A read \in OrderedBySequence(routeStops', StopOrders(routeStops')) :
                  \A k \in 1..Len(read) : \A l \in (k + 1)..Len(read) :
                    (read[k].orderId \in ids /\ read[l].orderId \in ids) =>
                      \E a \in 1..Len(res.sequence) : \E b \in (a + 1)..Len(res.sequence) :
                        res.sequence[a] = read[k].orderId /\ res.sequence[b] = read[l].orderId
    ]_vars

\* C18 witness: optimizeRoute has answered 200 for a route of the three
\* orders with coordinates; the order nearest to the first has sequence 2
\* and the route has the totals of that tour.
C18_Witness ==
  /\ request.pc = "responded"
  /\ request.status = 200
  /\ routeStops[1] = 1
  /\ routeStops[3] = 2
  /\ routeStops[2] = 3
  /\ route.totalDistance > 0
  /\ TotalsNew(route, optimizeRouteNearestNeighbor(
                         << Location(1, 0, 0), Location(2, 1, 1), Location(3, 0, 1) >>))

\* C19 (refuted by the code): the status of a route only moves from PENDING
\* to IN_PROGRESS and from IN_PROGRESS to COMPLETED.  The formula says that
\* every step of a route request leaves the status as it is, creates the
\* route as PENDING, or takes one of these two moves.
C19_Lifecycle ==
  [][ \/ route'.status = route.status
      \/ ~route.exists /\ route'.status = "PENDING"
      \/ route.status = "PENDING" /\ route'.status = "IN_PROGRESS"
      \/ route.status = "IN_PROGRESS" /\ route'.status = "COMPLETED"
    ]_vars

\* C20: the locations passed to the optimizer are those of the stops read
\* whose order has both a latitude and a longitude, and while the result is
\* written every stop read without one of them keeps the sequence number it
\* was read with.
C20_LeftOut ==
  request.pc = "writing" =>
    /\ {request.locations[k].id : k \in 1..Len(request.locations)} =
         {request.stops[k].orderId :
            k \in {l \in 1..Len(request.stops) : HasCoordinates(request.stops[l])}}
    /\ \A k \in 1..Len(request.locations) :
         /\ request.locations[k].latitude # Null
         /\ request.locations[k].longitude # Null
    /\ \A k \in 1..Len(request.stops) :
         ~HasCoordinates(request.stops[k]) =>
           routeStops[request.stops[k].orderId] = request.stops[k].sequence

\* C20 witness: all stops of a result are written, a stop with coordinates
\* has a new sequence number, and the stop read without a longitude still
\* has the number it was read with, one the result has given out too.
C20_Witness ==
  /\ request.pc = "writing"
  /\ request.i = Len(request.optimizedResult.sequence)
  /\ request.i >= 2
  /\ ~AllOld(routeStops, request.stops)
  /\ \E k \in 1..Len(request.stops) :
       /\ ~HasCoordinates(request.stops[k])
       /\ routeStops[request.stops[k].orderId] = request.stops[k].sequence
       /\ request.stops[k].sequence <= request.i

\* The order of the stop row has both coordinates.
OrderHasCoordinates(o) == orders[o].latitude # Null /\ orders[o].longitude # Null

\* C21: a step in which optimizeRoute reads the route answers 404 when the
\* route does not exist and 400 when it has no stops, is COMPLETED or has no
\* stop whose order has coordinates, and such a step leaves every stop's
\* sequence number and the route's totalDistance and estimatedDuration as
\* they were before the request.
C21_RejectedWithoutWrite ==
  [][ (request.pc \in {"idle", "responded"} /\ request' # request) =>
        /\ ~route.exists => request'.status = 404
        /\ ( /\ route.exists
             /\ \/ StopOrders(routeStops) = {}
                \/ route.status = "COMPLETED"
                \/ \A o \in StopOrders(routeStops) : ~OrderHasCoordinates(o) )
           => request'.status = 400
        /\ request'.status \in {400, 404} =>
             /\ request'.pc = "responded"
             /\ routeStops' = routeStops
             /\ route' = route
    ]_vars

\* C21 witness: optimizeRoute has answered 400 for a route that is not
\* COMPLETED and whose only stop is the order without a longitude; the stop
\* has its sequence number and the route has no totals.
C21_Witness ==
  /\ request.pc = "responded"
  /\ request.status = 400
  /\ route.exists
  /\ route.status = "PENDING"
  /\ StopOrders(routeStops) = {4}
  /\ routeStops[4] = 1
  /\ route.totalDistance = Null
  /\ route.estimatedDuration = Null

\* C26 (refuted by the code): the sequence numbers stored for the stops of a
\* route are pairwise distinct.  The formula says so for every state in which
\* the last optimizeRoute request was answered 200 and none is in flight.
C26_DistinctSequences ==
  (request.pc = "responded" /\ request.status = 200) =>
    \A o \in StopOrders(routeStops) : \A p \in StopOrders(routeStops) :
      o # p => routeStops[o] # routeStops[p]

\* C27 (refuted by the code): a COMPLETED route is never written again.  The
\* formula says that every step taken while the route is COMPLETED leaves
\* the sequence number of each stop and the totalDistance and
\* estimatedDuration of the route as they are.
C27_CompletedFrozen ==
  [][ (route.exists /\ route.status = "COMPLETED") =>
        /\ routeStops' = routeStops
        /\ route'.totalDistance = route.totalDistance
        /\ route'.estimatedDuration = route.estimatedDuration
    ]_vars

\* -------------------------------------------------- calculateRouteDistance

\* locationMap.get(id): the Map is built from the list in order, so of two
\* locations with one id the later one is kept; 0 stands for undefined.
LocationMapGet(locs, id) ==
  LET found == {k \in 1..Len(locs) : locs[k].id = id}
  IN  IF found = {} THEN 0 ELSE CHOOSE k \in found : \A l \in found : l <= k

\* A faulty variant of RouteHops: the loop stops one hop early.
RouteHopsShort(seq) == Len(seq) - 2

\* for (let i = 0; i < sequence.length - 1; i++): the number of passes.
RouteHops(seq) == Len(seq) - 1

\* totalDistance after the first k passes of the loop of
\* calculateRouteDistance; NaN once a NaN was added.
RECURSIVE RouteDistanceSum(_, _, _)
RouteDistanceSum(locs, seq, k) ==
  IF k <= 0 THEN 0
  ELSE LET before == RouteDistanceSum(locs, seq, k - 1)
           loc1 == LocationMapGet(locs, seq[k])
           loc2 == LocationMapGet(locs, seq[k + 1])
           hop == calculateDistance(locs[loc1].latitude, locs[loc1].longitude,
                                    locs[loc2].latitude, locs[loc2].longitude)
       IN  IF loc1 = 0 \/ loc2 = 0 THEN before
           ELSE IF IsNaN(before) \/ IsNaN(hop) THEN NaN
           ELSE before + hop

calculateRouteDistance(locs, seq) ==
  IF Len(seq) <= 1 THEN 0
  ELSE LET total == RouteDistanceSum(locs, seq, RouteHops(seq))
       IN  IF IsNaN(total) THEN NaN ELSE RoundTo2Decimals(total)

\* The stops of the list in the order the call visited them.
Reordered ==
  IF Len(locations) <= 1 THEN locations
  ELSE [k \in 1..Len(sequence) |-> locations[sequence[k] + 1]]

\* C29: when a call has returned, a second call on the stops put into the
\* order of the first result returns the same sequence, the same total
\* distance and the same estimated duration.
C29_Idempotent ==
  pc = "returned" =>
    LET again == optimizeRouteNearestNeighbor(Reordered)
    IN  /\ again.sequence = result.sequence
        /\ again.totalDistance = result.totalDistance
        /\ again.estimatedDuration = result.estimatedDuration
        /\ again.algorithm = result.algorithm

\* C29 witness: a call has returned for four stops of which two are equally
\* near to the first, in an order that is not the input order.
C29_Witness ==
  /\ pc = "returned"
  /\ Len(locations) = 4
  /\ result.sequence # InputIds
  /\ \E i \in 1..3 : \E j \in 1..3 :
       /\ i # j
       /\ distanceMatrix[0][i] = distanceMatrix[0][j]
       /\ distanceMatrix[0][i] > 0
       /\ ~IsNaN(distanceMatrix[0][i])

\* C30 as it is stated (refuted): whenever a call has returned r,
\* calculateRouteDistance(locations, r.sequence) is r.totalDistance, also
\* for a list in which two stops carry the same identifier.
C30_RouteDistanceAnyIds ==
  pc = "returned" =>
    calculateRouteDistance(locations, result.sequence) = result.totalDistance

\* C30, amended: whenever a call on a list whose identifiers are pairwise
\* different has returned r, calculateRouteDistance(locations, r.sequence)
\* is r.totalDistance.
C30_RouteDistance ==
  ( /\ pc = "returned"
    /\ \A k \in 1..Len(locations) : \A l \in 1..Len(locations) :
          locations[k].id = locations[l].id => k = l )
  => calculateRouteDistance(locations, result.sequence) = result.totalDistance

\* C30 witness: a call on four stops with four identifiers has returned a
\* tour of positive length in an order that is not the input order.
C30_Witness ==
  /\ pc = "returned"
  /\ Len(locations) = 4
  /\ Cardinality({locations[k].id : k \in 1..4}) = 4
  /\ result.sequence # InputIds
  /\ result.totalDistance > 0
  /\ calculateRouteDistance(locations, result.sequence) = result.totalDistance

\* ------------------------------------------------------- the route table
\* The handlers of routeController over the whole Route table: several
\* routes, each with its driver, and the RouteStop rows of all of them.
\* The requests are served one after the other, so every handler is one
\* step from its request to its response.

\* The most Route rows ever created in a run.
MaxRoutes == 3

\* Driver.isActive of the Driver rows, by id: an active driver and one that
\* is not.
DriverActive == << TRUE, FALSE >>

DriverIds == DOMAIN DriverActive

\* Order.status of the Order rows, by id, before any request.
FleetOrders == << "PENDING", "PENDING" >>

FleetOrderIds == DOMAIN FleetOrders

\* An id that names no row of its table.
UnknownId == 0

\* The ids a request can name: those of the rows that ever exist and one
\* that names no row.
RouteIdInputs == 1..MaxRoutes

\* req.body.driverId of a createRoute request: absent, unknown or a driver.
DriverIdInputs == DriverIds \cup {Null, UnknownId}

\* req.body.orderIds of an assign request over the whole table: orders and
\* ids of no order, any of them possibly twice, as many as there are orders.
FleetAssignLists ==
  UNION { [1..n -> FleetOrderIds \cup {UnknownId}] : n \in 0..Len(FleetOrders) }

\* No request served yet.
NoResponse == [handler |-> "none", status |-> 0]

\* res.status(status).json(...) of a handler.
Response(handler, status) == [handler |-> handler, status |-> status]

FleetInit ==
  /\ routeTable = {}
  /\ routeIds = 0
  /\ stopTable = << >>
  /\ driverTable = [d \in DriverIds |->
                      [isActive |-> DriverActive[d], status |-> "AVAILABLE"]]
  /\ orderTable = [o \in FleetOrderIds |->
                     [status |-> FleetOrders[o], updated |-> FALSE]]
  /\ response = NoResponse
  /\ assigns = << >>
  /\ ControllerIdle
  /\ ConcurrentIdle
  /\ EstimateIdle
  /\ locations = << >>
  /\ pc = "idle"
  /\ distanceMatrix = << >>
  /\ visited = {}
  /\ sequence = << >>
  /\ currentIndex = 0
  /\ totalDistance = 0
  /\ iterations = 0
  /\ result = NoResult

\* prisma.route.findUnique({ where: { id } }): is there such a row,
RouteFound(id) == \E r \in routeTable : r.id = id

\* and the row.
FindRoute(id) == CHOOSE r \in routeTable : r.id = id

\* include: { stops: true }: the RouteStop rows of the route.
RouteStopsOf(table, id) == SelectSeq(table, LAMBDA s : s.routeId = id)

\* prisma.route.count()
RouteCount == Cardinality(routeTable)

\* The number in `RT-${String(routeCount + 1).padStart(6, '0')}`: two route
\* numbers are the same string exactly when the numbers are the same.
RouteNumber(routeCount) == routeCount + 1

\* routeNumber String @unique: a row with this route number is there, and
\* prisma.route.create with it throws.
RouteNumberTaken(routeNumber) ==
  \E r \in routeTable : r.routeNumber = routeNumber

\* createRoute: 400 without a driverId, 404 for an unknown driver, 400 for
\* a driver that is not active; else a PENDING route numbered from the count
\* of the rows, and 500 when the create throws on the route number.
FleetCreateRoute(driverId) ==
  /\ routeIds < MaxRoutes
  /\ LET routeNumber == RouteNumber(RouteCount)
         status == IF driverId = Null THEN 400
                   ELSE IF driverId \notin DriverIds THEN 404
                   ELSE IF ~driverTable[driverId].isActive THEN 400
                   ELSE IF RouteNumberTaken(routeNumber) THEN 500
                   ELSE 201
     IN  IF status = 201
         THEN /\ routeTable' = routeTable \cup
                    {[id |-> routeIds + 1, routeNumber |-> routeNumber,
                      driverId |-> driverId, status |-> "PENDING"]}
              /\ routeIds' = routeIds + 1
              /\ response' = Response("createRoute", 201)
         ELSE /\ UNCHANGED << routeTable, routeIds >>
              /\ response' = Response("createRoute", status)
  /\ UNCHANGED << stopTable, driverTable, orderTable, assigns,
                  optimizerVars, estimateVars, concurrentVars, controllerVars >>

\* A faulty variant of CascadeDelete: the stops of a deleted route stay.
CascadeKeep(table, id) == table

\* route Route @relation(..., onDelete: Cascade): the RouteStop rows left
\* when the route id is deleted.
CascadeDelete(table, id) == SelectSeq(table, LAMBDA s : s.routeId # id)

\* An Order row after an update of its status: updatedAt DateTime @updatedAt
\* is no longer the time of creation.
OrderWithStatus(status) == [status |-> status, updated |-> TRUE]

\* prisma.order.updateMany({ where: { routeStop: { routeId: id } },
\* data: { status: PENDING } })
UnassignOrders(id) ==
  [o \in DOMAIN orderTable |->
     IF \E k \in 1..Len(stopTable) :
          stopTable[k].orderId = o /\ stopTable[k].routeId = id
     THEN OrderWithStatus("PENDING") ELSE orderTable[o]]

\* deleteRoute: 404, 400 for a route IN_PROGRESS; else the orders of its
\* stops are set PENDING and the route is deleted, its stops with it.
FleetDeleteRoute(id) ==
  /\ IF ~RouteFound(id)
     THEN /\ response' = Response("deleteRoute", 404)
          /\ UNCHANGED << routeTable, stopTable, orderTable >>
     ELSE IF FindRoute(id).status = "IN_PROGRESS"
     THEN /\ response' = Response("deleteRoute", 400)
          /\ UNCHANGED << routeTable, stopTable, orderTable >>
     ELSE /\ orderTable' = IF Len(RouteStopsOf(stopTable, id)) > 0
                           THEN UnassignOrders(id) ELSE orderTable
          /\ routeTable' = routeTable \ {FindRoute(id)}
          /\ stopTable' = CascadeDelete(stopTable, id)
          /\ response' = Response("deleteRoute", 200)
  /\ UNCHANGED << routeIds, driverTable, assigns,
                  optimizerVars, estimateVars, concurrentVars, controllerVars >>

\* order.routeStop of include: { routeStop: true }: the order has a stop.
HasRouteStop(table, orderId) ==
  \E k \in 1..Len(table) : table[k].orderId = orderId

\* route.stops.reduce((max, stop) => stop.sequence > max ? ... , 0) over the
\* rows read with the route.
FleetMaxSequence(rows) == SetMax({rows[k].sequence : k \in 1..Len(rows)})

\* One pass of the loop of assignOrdersToRoute for orderIds[i] (i counted
\* from 0 as in the code), on the tables t = [stops, orders]: the order is
\* not found or has a stop (failed), or the stop is created with sequence
\* maxSequence + i + 1 and the order set ASSIGNED.
AssignPass(t, id, orderId, i, maxSequence) ==
  IF \/ orderId \notin DOMAIN t.orders
     \/ HasRouteStop(t.stops, orderId)
  THEN [t EXCEPT !.failed = Append(@, orderId)]
  ELSE [t EXCEPT !.stops = Append(@, [routeId |-> id, orderId |-> orderId,
                                        sequence |-> maxSequence + i + 1]),
                 !.orders = [@ EXCEPT ![orderId] = OrderWithStatus("ASSIGNED")]]

\* The loop from index i on.
RECURSIVE FleetAssignLoop(_, _, _, _, _)
FleetAssignLoop(t, id, orderIds, i, maxSequence) ==
  IF i >= Len(orderIds) THEN t
  ELSE FleetAssignLoop(AssignPass(t, id, orderIds[i + 1], i, maxSequence),
                       id, orderIds, i + 1, maxSequence)

\* assignOrdersToRoute: 400 for an empty array, 404, 400 for a COMPLETED
\* route, else the loop over orderIds.
FleetAssignOrders(id, orderIds) ==
  /\ IF Len(orderIds) = 0
     THEN /\ response' = Response("assignOrdersToRoute", 400)
          /\ UNCHANGED << stopTable, orderTable >>
     ELSE IF ~RouteFound(id)
     THEN /\ response' = Response("assignOrdersToRoute", 404)
          /\ UNCHANGED << stopTable, orderTable >>
     ELSE IF FindRoute(id).status = "COMPLETED"
     THEN /\ response' = Response("assignOrdersToRoute", 400)
          /\ UNCHANGED << stopTable, orderTable >>
     ELSE LET t == FleetAssignLoop(
                     [stops |-> stopTable, orders |-> orderTable,
                      failed |-> << >>],
                     id, orderIds, 0,
                     FleetMaxSequence(RouteStopsOf(stopTable, id)))
          IN  /\ stopTable' = t.stops
              /\ orderTable' = t.orders
              /\ response' = Response("assignOrdersToRoute", 200)
  /\ UNCHANGED << routeTable, routeIds, driverTable, assigns,
                  optimizerVars, estimateVars, concurrentVars, controllerVars >>

\* prisma.route.update({ where: { id }, data: { status } }) on the table.
RouteWithStatus(id, status) ==
  {IF r.id = id THEN [r EXCEPT !.status = status] ELSE r : r \in routeTable}

\* A faulty variant of DriverWithStatus: another driver's row is updated.
DriverWithStatusOfNext(driverId, status) ==
  [driverTable EXCEPT ![(driverId % Len(DriverActive)) + 1].status = status]

\* prisma.driver.update({ where: { id: route.driverId }, data: { status } })
DriverWithStatus(driverId, status) ==
  [driverTable EXCEPT ![driverId].status = status]

\* startRoute: 404, 400 without stops, 400 unless PENDING; else the
\* transaction: the route IN_PROGRESS and its driver ON_ROUTE.
FleetStartRoute(id) ==
  /\ IF ~RouteFound(id)
     THEN /\ response' = Response("startRoute", 404)
          /\ UNCHANGED << routeTable, driverTable >>
     ELSE IF Len(RouteStopsOf(stopTable, id)) = 0
     THEN /\ response' = Response("startRoute", 400)
          /\ UNCHANGED << routeTable, driverTable >>
     ELSE IF FindRoute(id).status # "PENDING"
     THEN /\ response' = Response("startRoute", 400)
          /\ UNCHANGED << routeTable, driverTable >>
     ELSE /\ routeTable' = RouteWithStatus(id, "IN_PROGRESS")
          /\ driverTable' = DriverWithStatus(FindRoute(id).driverId, "ON_ROUTE")
          /\ response' = Response("startRoute", 200)
  /\ UNCHANGED << routeIds, stopTable, orderTable, assigns,
                  optimizerVars, estimateVars, concurrentVars, controllerVars >>

\* completeRoute: 404, 400 unless IN_PROGRESS; else the transaction: the
\* route COMPLETED and its driver AVAILABLE.
FleetCompleteRoute(id) ==
  /\ IF ~RouteFound(id)
     THEN /\ response' = Response("completeRoute", 404)
          /\ UNCHANGED << routeTable, driverTable >>
     ELSE IF FindRoute(id).status # "IN_PROGRESS"
     THEN /\ response' = Response("completeRoute", 400)
          /\ UNCHANGED << routeTable, driverTable >>
     ELSE /\ routeTable' = RouteWithStatus(id, "COMPLETED")
          /\ driverTable' = DriverWithStatus(FindRoute(id).driverId, "AVAILABLE")
          /\ response' = Response("completeRoute", 200)
  /\ UNCHANGED << routeIds, stopTable, orderTable, assigns,
                  optimizerVars, estimateVars, concurrentVars, controllerVars >>

FleetNext ==
  \/ \E driverId \in DriverIdInputs : FleetCreateRoute(driverId)
  \/ \E id \in RouteIdInputs : FleetDeleteRoute(id)
  \/ \E id \in RouteIdInputs : \E orderIds \in FleetAssignLists :
       FleetAssignOrders(id, orderIds)
  \/ \E id \in RouteIdInputs : FleetStartRoute(id)
  \/ \E id \in RouteIdInputs : FleetCompleteRoute(id)

FleetSpec == FleetInit /\ [][FleetNext]_vars

\* The last request was served by handler with this status.
Answered(handler, status) ==
  response.handler = handler /\ response.status = status

\* The route r got newStatus and driver status, every other row as before.
SetTogether(r, routeStatus, driverStatus) ==
  /\ routeTable' = (routeTable \ {r}) \cup {[r EXCEPT !.status = routeStatus]}
  /\ driverTable'[r.driverId].status = driverStatus
  /\ \A d \in DriverIds \ {r.driverId} : driverTable'[d] = driverTable[d]

\* C22: a startRoute or completeRoute request answered with an error leaves
\* every route's and every driver's status as it was; a startRoute request
\* answered 200 was for a PENDING route with a stop and sets that route
\* IN_PROGRESS and its driver ON_ROUTE in the same step; a completeRoute
\* request answered 200 was for a route IN_PROGRESS and sets that route
\* COMPLETED and its driver AVAILABLE in the same step.
C22_LifecycleRequests ==
  [][ /\ ( /\ response'.handler \in {"startRoute", "completeRoute"}
           /\ response'.status # 200 )
         => /\ routeTable' = routeTable
            /\ driverTable' = driverTable
      /\ ( response'.handler = "startRoute" /\ response'.status = 200 )
         => \E r \in routeTable :
              /\ r.status = "PENDING"
              /\ Len(RouteStopsOf(stopTable, r.id)) > 0
              /\ SetTogether(r, "IN_PROGRESS", "ON_ROUTE")
      /\ ( response'.handler = "completeRoute" /\ response'.status = 200 )
         => \E r \in routeTable :
              /\ r.status = "IN_PROGRESS"
              /\ SetTogether(r, "COMPLETED", "AVAILABLE")
    ]_vars

\* C22 witness: a completeRoute request was just refused while one route is
\* COMPLETED, another is PENDING without a stop and the driver is AVAILABLE:
\* a start and a completion went through and a request was refused.
C22_Witness ==
  /\ Answered("completeRoute", 400)
  /\ \E r \in routeTable : r.status = "COMPLETED"
  /\ \E r \in routeTable :
       r.status = "PENDING" /\ Len(RouteStopsOf(stopTable, r.id)) = 0
  /\ \A d \in DriverIds : driverTable[d].status = "AVAILABLE"

\* C23: no createRoute request for an active driver fails on the route
\* number, and no two routes that exist have the same route number.
C23_UniqueRouteNumber ==
  /\ ~Answered("createRoute", 500)
  /\ \A r \in routeTable : \A q \in routeTable :
       r.routeNumber = q.routeNumber => r = q

\* C25: a deleteRoute request never removes a route IN_PROGRESS and, when it
\* is refused, leaves routes, stops and orders as they are; when it is
\* answered 200 one route is gone, no stop of it is left, and every order
\* that was a stop of it is PENDING and has no stop.
C25_DeleteRoute ==
  [][ response'.handler = "deleteRoute" =>
        /\ \A r \in routeTable : r.status = "IN_PROGRESS" => r \in routeTable'
        /\ response'.status # 200 =>
             /\ routeTable' = routeTable
             /\ stopTable' = stopTable
             /\ orderTable' = orderTable
        /\ response'.status = 200 =>
             \E r \in routeTable :
               /\ routeTable' = routeTable \ {r}
               /\ \A k \in 1..Len(stopTable') : stopTable'[k].routeId # r.id
               /\ \A k \in 1..Len(stopTable) :
                    stopTable[k].routeId = r.id =>
                      /\ orderTable'[stopTable[k].orderId].status = "PENDING"
                      /\ ~HasRouteStop(stopTable', stopTable[k].orderId)
    ]_vars

\* C25 witness: a route was just deleted and an order whose row was updated
\* is PENDING without a stop (it was a stop of a deleted route), while
\* another route still has its stop.
C25_Witness ==
  /\ Answered("deleteRoute", 200)
  /\ \E o \in FleetOrderIds :
       /\ orderTable[o].updated
       /\ orderTable[o].status = "PENDING"
       /\ ~HasRouteStop(stopTable, o)
  /\ Len(stopTable) > 0

\* C28: a driver with a route IN_PROGRESS has status ON_ROUTE.
C28_DriverOnRoute ==
  \A r \in routeTable :
    r.status = "IN_PROGRESS" => driverTable[r.driverId].status = "ON_ROUTE"

\* ------------------------------------------- assign requests in flight
\* assignOrdersToRoute step by step: every await of the handler is a step,
\* and the steps of two requests interleave in any order.  The routes are
\* the two PENDING routes two createRoute requests leave.

\* The requests in flight together.
AssignIds == {1, 2}

\* No request in the slot.
IdleAssign ==
  [pc |-> "idle", id |-> Null, orderIds |-> << >>, maxSequence |-> 0,
   i |-> 0, success |-> 0, failed |-> << >>, status |-> 0]

AssignInit ==
  /\ routeTable = {[id |-> n, routeNumber |-> RouteNumber(n - 1),
                    driverId |-> 1, status |-> "PENDING"] : n \in AssignIds}
  /\ routeIds = Cardinality(AssignIds)
  /\ stopTable = << >>
  /\ driverTable = [d \in DriverIds |->
                      [isActive |-> DriverActive[d], status |-> "AVAILABLE"]]
  /\ orderTable = [o \in FleetOrderIds |->
                     [status |-> FleetOrders[o], updated |-> FALSE]]
  /\ response = NoResponse
  /\ assigns = [a \in AssignIds |-> IdleAssign]
  /\ ControllerIdle
  /\ ConcurrentIdle
  /\ EstimateIdle
  /\ locations = << >>
  /\ pc = "idle"
  /\ distanceMatrix = << >>
  /\ visited = {}
  /\ sequence = << >>
  /\ currentIndex = 0
  /\ totalDistance = 0
  /\ iterations = 0
  /\ result = NoResult

\* The steps of a request leave all but the two tables and the locals.
AssignFrame ==
  UNCHANGED << routeTable, routeIds, driverTable, response,
               optimizerVars, estimateVars, concurrentVars, controllerVars >>

\* A request arrives in a free slot: 400 for an empty array, 404, 400 for a
\* COMPLETED route, else maxSequence is taken from the route's stops as
\* they are now and the loop begins.
AssignRequest(a, id, orderIds) ==
  /\ assigns[a].pc \in {"idle", "responded"}
  /\ LET status == IF Len(orderIds) = 0 THEN 400
                   ELSE IF ~RouteFound(id) THEN 404
                   ELSE IF FindRoute(id).status = "COMPLETED" THEN 400
                   ELSE 0
     IN  assigns' = [assigns EXCEPT ![a] =
           IF status # 0
           THEN [IdleAssign EXCEPT !.pc = "responded", !.status = status]
           ELSE [IdleAssign EXCEPT
                   !.pc = "find", !.id = id, !.orderIds = orderIds,
                   !.maxSequence =
                      FleetMaxSequence(RouteStopsOf(stopTable, id))]]
  /\ UNCHANGED << stopTable, orderTable >>
  /\ AssignFrame

\* The pass for orderIds[i] is over and counted as failed.
AssignFailed(r) ==
  [r EXCEPT !.failed = Append(@, r.orderIds[r.i + 1]), !.i = r.i + 1,
            !.pc = "find"]

\* await prisma.order.findUnique(...): the order is not found or has a stop
\* (failed, continue), else the stop is to be created; after the last pass
\* the response with results.success and results.errors, and the locals of
\* the handler are gone.
AssignFindOrder(a) ==
  LET r == assigns[a]
  IN  /\ r.pc = "find"
      /\ assigns' = [assigns EXCEPT ![a] =
           IF r.i >= Len(r.orderIds)
           THEN [IdleAssign EXCEPT !.pc = "responded", !.status = 200,
                                   !.success = r.success, !.failed = r.failed]
           ELSE IF \/ r.orderIds[r.i + 1] \notin DOMAIN orderTable
                   \/ HasRouteStop(stopTable, r.orderIds[r.i + 1])
           THEN AssignFailed(r)
           ELSE [r EXCEPT !.pc = "create"]]
      /\ UNCHANGED << stopTable, orderTable >>
      /\ AssignFrame

\* A faulty variant of OrderIdTaken: the stop table takes any orderId.
OrderIdFree(table, orderId) == FALSE

\* orderId String @unique of model RouteStop: a row with this orderId is in
\* the table, and prisma.routeStop.create with it throws.
OrderIdTaken(table, orderId) ==
  \E k \in 1..Len(table) : table[k].orderId = orderId

\* await prisma.routeStop.create(...): the stop with sequence
\* maxSequence + i + 1, or the throw on the orderId, caught as failed.
AssignCreateStop(a) ==
  LET r == assigns[a]
      orderId == r.orderIds[r.i + 1]
  IN  /\ r.pc = "create"
      /\ IF OrderIdTaken(stopTable, orderId)
         THEN /\ assigns' = [assigns EXCEPT ![a] = AssignFailed(r)]
              /\ UNCHANGED stopTable
         ELSE /\ stopTable' = Append(stopTable,
                    [routeId |-> r.id, orderId |-> orderId,
                     sequence |-> r.maxSequence + r.i + 1])
              /\ assigns' = [assigns EXCEPT ![a].pc = "update"]
      /\ UNCHANGED orderTable
      /\ AssignFrame

\* await prisma.order.update(...): the order ASSIGNED, results.success++.
AssignUpdateOrder(a) ==
  LET r == assigns[a]
  IN  /\ r.pc = "update"
      /\ orderTable' = [orderTable EXCEPT ![r.orderIds[r.i + 1]] =
                          OrderWithStatus("ASSIGNED")]
      /\ assigns' = [assigns EXCEPT ![a] =
           [r EXCEPT !.success = r.success + 1, !.i = r.i + 1, !.pc = "find"]]
      /\ UNCHANGED stopTable
      /\ AssignFrame

AssignNext ==
  \E a \in AssignIds :
    \/ \E id \in AssignIds \cup {UnknownId} :
         \E orderIds \in FleetAssignLists : AssignRequest(a, id, orderIds)
    \/ AssignFindOrder(a)
    \/ AssignCreateStop(a)
    \/ AssignUpdateOrder(a)

AssignSpec == AssignInit /\ [][AssignNext]_vars

\* The rows of the stop table with this orderId.
StopsOfOrder(table, orderId) ==
  {k \in 1..Len(table) : table[k].orderId = orderId}

\* C24: in every step of assign requests in flight together, no order has
\* two stops afterwards; a stop that is created is for an order that exists
\* and had no stop; and a request that counts an order id as failed changes
\* neither the stops nor the orders in that step.
C24_OneStopPerOrder ==
  [][ /\ \A o \in FleetOrderIds :
           Cardinality(StopsOfOrder(stopTable', o)) <= 1
      /\ \A k \in (Len(stopTable) + 1)..Len(stopTable') :
           /\ stopTable'[k].orderId \in DOMAIN orderTable
           /\ StopsOfOrder(stopTable, stopTable'[k].orderId) = {}
      /\ \A a \in AssignIds :
           ( /\ assigns[a].pc \in {"find", "create"}
             /\ assigns'[a].i = assigns[a].i + 1
             /\ assigns'[a].success = assigns[a].success )
           => /\ assigns'[a].failed =
                   Append(assigns[a].failed, assigns[a].orderIds[assigns[a].i + 1])
              /\ stopTable' = stopTable
              /\ orderTable' = orderTable
      /\ \A a \in AssignIds :
           ( assigns[a].pc = "find" /\ assigns'[a].pc = "responded" )
           => assigns'[a].success + Len(assigns'[a].failed)
                = Len(assigns[a].orderIds)
    ]_vars

\* C24 witness: a request found an order without a stop and is about to
\* create its stop, while the other request, for another route, has created
\* a stop for that order in between and was answered.
C24_Witness ==
  \E a \in AssignIds : \E b \in AssignIds :
    /\ assigns[a].pc = "create"
    /\ assigns[b].pc = "responded"
    /\ assigns[b].success = 1
    /\ \E k \in 1..Len(stopTable) :
         /\ stopTable[k].orderId = assigns[a].orderIds[assigns[a].i + 1]
         /\ stopTable[k].routeId # assigns[a].id

=============================================================================
